---- MODULE Spec2Model ----
(***************************************************************************)
(* A model of RedisPersistence (src/src/lib.rs), the adapter that maps the *)
(* paho_mqtt::ClientPersistence callbacks onto Redis hash commands, and of *)
(* the part of the Redis store those commands act on.                      *)
(*                                                                         *)
(* Two adapter instances share one store.  Every callback is one action.   *)
(* A callback's outcome is recorded in `last`, the call that returned most *)
(* recently, so that a property of a result, or of two consecutive calls,  *)
(* is a state predicate or an action formula over `last`.                  *)
(***************************************************************************)
EXTENDS Integers, Sequences, FiniteSets, TLC

VARIABLES
    name,    \* RedisPersistence.name of each adapter (a string, as characters)
    conn,    \* RedisPersistence.conn of each adapter: "None" or "Some"
    ident,   \* the <<client_id, server_uri>> each adapter's latest open was given
    acquired, \* the connections each adapter got from client.get_connection()
    released, \* the connections of each adapter that were dropped
    store,   \* the Redis server: hash name -> (field -> bytes); no fields = no key
    last,    \* the callback that returned most recently, with its arguments and result
    ncalls   \* the number of callbacks made so far

vars == <<name, conn, ident, acquired, released, store, last, ncalls>>

----------------------------------------------------------------------------
(* Bounds and input sets *)

MaxCalls == 4        \* callbacks per behaviour

Adapters == {1, 2}

\* client_id and server_uri strings, as sequences of characters
ClientIds == { <<"a">>, <<"a", ":", "b">> }
ServerUris == { <<"c">>, <<"b", ":", "c">> }

Keys == {"k1", "k2"}


RECURSIVE SeqsUpTo(_, _)
SeqsUpTo(S, n) ==
    IF n = 0 THEN { <<>> }
    ELSE LET shorter == SeqsUpTo(S, n - 1)
         IN  shorter \cup { Append(s, x) : s \in { t \in shorter : Len(t) = n - 1 }, x \in S }

\* the lists of byte buffers a put is given: the empty list, an empty buffer,
\* one buffer, the same bytes split differently, two orders, an empty buffer inside
BufferLists ==
    { <<>>,
      << <<>> >>,
      << <<1, 2>> >>,
      << <<1>>, <<2>> >>,
      << <<2>>, <<1>> >>,
      << <<1>>, <<>>, <<2, 1>> >> }

----------------------------------------------------------------------------
(* Pure functions of the adapter *)

\* format!("{}:{}", client_id, server_uri)
Format(client_id, server_uri) == client_id \o <<":">> \o server_uri

\* a concat that puts each buffer in front of those before it
RECURSIVE concat_swapped(_)
concat_swapped(buffers) ==
    IF buffers = <<>> THEN <<>>
    ELSE concat_swapped(Tail(buffers)) \o Head(buffers)

\* buffers.concat()
RECURSIVE concat(_)
concat(buffers) ==
    IF buffers = <<>> THEN <<>>
    ELSE Head(buffers) \o concat(Tail(buffers))

Names == { Format(c, u) : c \in ClientIds, u \in ServerUris } \cup { <<>> }

----------------------------------------------------------------------------
(* The Redis commands the adapter issues, on the store s, and their replies. *)
(* A reply is a redis::Value: Nil, Int, Data (bytes) or Bulk (a list).       *)

VNil == [t |-> "Nil"]
VInt(n) == [t |-> "Int", n |-> n]
VData(bytes) == [t |-> "Data", v |-> bytes]
VBulk(items) == [t |-> "Bulk", v |-> items]

\* an HSET that keeps the value of a field that exists (HSETNX)
HSetNX(s, n, k, v) == [s EXCEPT ![n] = s[n] @@ (k :> v)]

\* an HSET that leaves the hash with the one field it sets
HSetAlone(s, n, k, v) == [s EXCEPT ![n] = (k :> v)]

\* HSET name key value: sets the field, replacing any previous value
HSet(s, n, k, v) == [s EXCEPT ![n] = (k :> v) @@ s[n]]

HSetReply(s, n, k) == VInt(IF k \in DOMAIN s[n] THEN 0 ELSE 1)

\* HGET name key
HGet(s, n, k) == IF k \in DOMAIN s[n] THEN VData(s[n][k]) ELSE VNil

\* an HDEL that removes nothing
HDelNothing(s, n, k) == s

\* HDEL name key: removes the field; the reply counts the fields removed
HDel(s, n, k) == [s EXCEPT ![n] = [f \in (DOMAIN s[n]) \ {k} |-> s[n][f]]]

HDelReply(s, n, k) == VInt(IF k \in DOMAIN s[n] THEN 1 ELSE 0)

\* a DEL that removes nothing
DelNothing(s, n) == s

\* a DEL that removes one field of the hash only
DelOneField(s, n) ==
    IF DOMAIN s[n] = {} THEN s
    ELSE LET k == CHOOSE f \in DOMAIN s[n] : TRUE
         IN  [s EXCEPT ![n] = [f \in (DOMAIN s[n]) \ {k} |-> s[n][f]]]

\* DEL name: removes the whole hash; the reply counts the keys removed
Del(s, n) == [s EXCEPT ![n] = <<>>]

DelReply(s, n) == VInt(IF DOMAIN s[n] = {} THEN 0 ELSE 1)

\* an EXISTS name: whether the hash exists, whatever its fields
HashExists(s, n, k) == VInt(IF DOMAIN s[n] # {} THEN 1 ELSE 0)

\* HEXISTS name key
HExists(s, n, k) == VInt(IF k \in DOMAIN s[n] THEN 1 ELSE 0)

\* the orders in which HKEYS may list the fields F
Orders(F) == { q \in SeqsUpTo(F, Cardinality(F)) :
                 Len(q) = Cardinality(F) /\ { q[i] : i \in 1..Len(q) } = F }

\* an HKEYS that leaves one field out of its reply
HKeysButOne(s, n) ==
    { VBulk(q) : q \in UNION { Orders((DOMAIN s[n]) \ {k}) : k \in DOMAIN s[n] } }
      \cup (IF DOMAIN s[n] = {} THEN { VBulk(<<>>) } ELSE {})

\* HKEYS name: the possible replies
HKeys(s, n) == { VBulk(q) : q \in Orders(DOMAIN s[n]) }

----------------------------------------------------------------------------
(* redis::FromRedisValue: the conversion of a reply to the type the code   *)
(* asks for.  The result is [ok |-> TRUE, v |-> value] or [ok |-> FALSE].  *)

ConvErr == [ok |-> FALSE]
ConvOk(v) == [ok |-> TRUE, v |-> v]

\* RedisResult<Vec<u8>>: Data gives its bytes, Nil gives the empty vector
AsVecU8(reply) ==
    CASE reply.t = "Data" -> ConvOk(reply.v)
      [] reply.t = "Nil"  -> ConvOk(<<>>)
      [] OTHER            -> ConvErr

\* RedisResult<usize>: an integer reply
AsUsize(reply) ==
    CASE reply.t = "Int" /\ reply.n >= 0 -> ConvOk(reply.n)
      [] OTHER                           -> ConvErr

\* RedisResult<Vec<String>>: a list of strings, Nil gives the empty vector
AsVecString(reply) ==
    CASE reply.t = "Bulk" -> ConvOk(reply.v)
      [] reply.t = "Nil"  -> ConvOk(<<>>)
      [] OTHER            -> ConvErr

----------------------------------------------------------------------------
(* The record of a call *)

NoKey == "-"

\* the Redis command each record operation sends
Command(op) ==
    CASE op = "put"          -> "HSET"
      [] op = "get"          -> "HGET"
      [] op = "remove"       -> "HDEL"
      [] op = "keys"         -> "HKEYS"
      [] op = "clear"        -> "DEL"
      [] op = "contains_key" -> "HEXISTS"

Call(op, a, io, res) ==
    [op |-> op, a |-> a, io |-> io, res |-> res,
     key |-> NoKey, bufs |-> <<>>, n |-> 0, val |-> <<>>, ks |-> <<>>, b |-> FALSE,
     cmds |-> IF io = "none" \/ op \in {"new", "open", "close"} THEN <<>> ELSE <<Command(op)>>]

Init ==
    /\ name = [a \in Adapters |-> <<>>]
    /\ conn = [a \in Adapters |-> "None"]
    /\ ident = [a \in Adapters |-> <<>>]
    /\ acquired = [a \in Adapters |-> 0]
    /\ released = [a \in Adapters |-> 0]
    /\ store = [n \in Names |-> <<>>]
    /\ last = Call("new", 1, "none", "Ok")
    /\ ncalls = 0

----------------------------------------------------------------------------
(* The callbacks.  `ok` and `io` are the environment's part: whether the   *)
(* connection attempt, or the store command, succeeds.  A command whose    *)
(* reply is lost may or may not have been applied by the server.           *)

Returned(c) ==
    /\ last' = c
    /\ ncalls' = ncalls + 1

\* the stores a failed write command can leave: not applied, or applied
AfterFailed(s, applied) == { s, applied }

\* a drop that releases nothing (the connection is leaked)
DroppedNothing(c) == 0

\* the connections released when a value c of self.conn is dropped: the one
\* it holds, if any (drop(conn) in close, the assignment to self.conn in open)
Dropped(c) == IF c = "Some" THEN 1 ELSE 0

\* fn open(&mut self, client_id, server_uri)
open(a, client_id, server_uri, ok) ==
    /\ ncalls < MaxCalls
    /\ name' = [name EXCEPT ![a] = Format(client_id, server_uri)]
    /\ ident' = [ident EXCEPT ![a] = <<client_id, server_uri>>]
    /\ IF ok
       THEN /\ conn' = [conn EXCEPT ![a] = "Some"]
            /\ acquired' = [acquired EXCEPT ![a] = @ + 1]
            /\ released' = [released EXCEPT ![a] = @ + Dropped(conn[a])]
       ELSE UNCHANGED <<conn, acquired, released>>
    /\ UNCHANGED store
    /\ Returned(Call("open", a, IF ok THEN "ok" ELSE "fail", IF ok THEN "Ok" ELSE "Err"))

\* a close that returns success without taking the connection out of self.conn
close_keeping(a) ==
    /\ ncalls < MaxCalls
    /\ UNCHANGED <<name, ident, conn, acquired, released, store>>
    /\ Returned(Call("close", a, "none", "Ok"))

\* a close that deletes the adapter's hash before it drops the connection
close_clearing(a) ==
    /\ ncalls < MaxCalls
    /\ conn' = [conn EXCEPT ![a] = "None"]
    /\ released' = [released EXCEPT ![a] = @ + Dropped(conn[a])]
    /\ store' = IF conn[a] = "Some" THEN Del(store, name[a]) ELSE store
    /\ UNCHANGED <<name, ident, acquired>>
    /\ Returned(Call("close", a, "none", "Ok"))

\* fn close(&mut self)
close(a) ==
    /\ ncalls < MaxCalls
    /\ conn' = [conn EXCEPT ![a] = "None"]
    /\ released' = [released EXCEPT ![a] = @ + Dropped(conn[a])]
    /\ UNCHANGED <<name, ident, acquired, store>>
    /\ Returned(Call("close", a, "none", "Ok"))

\* fn put(&mut self, key, buffers)
put(a, key, buffers, io) ==
    /\ ncalls < MaxCalls
    /\ UNCHANGED <<name, ident, conn, acquired, released>>
    /\ IF conn[a] = "None"
       THEN /\ UNCHANGED store
            /\ Returned([Call("put", a, "none", "Err") EXCEPT !.key = key, !.bufs = buffers])
       ELSE LET buf == concat(buffers)
                done == HSet(store, name[a], key, buf)
            IN  IF io = "ok"
                THEN /\ store' = done
                     /\ Returned([Call("put", a, "ok", "Ok")
                                    EXCEPT !.key = key, !.bufs = buffers,
                                           !.n = HSetReply(store, name[a], key).n])
                ELSE \* Cmd::execute panics when the query fails
                     /\ store' \in AfterFailed(store, done)
                     /\ Returned([Call("put", a, "fail", "Panic")
                                    EXCEPT !.key = key, !.bufs = buffers])

\* a get that drops the connection when its command fails
get_closing(a, key, io) ==
    /\ ncalls < MaxCalls
    /\ UNCHANGED <<name, ident, acquired, store>>
    /\ IF conn[a] = "None"
       THEN /\ UNCHANGED <<conn, released>>
            /\ Returned([Call("get", a, "none", "Err") EXCEPT !.key = key])
       ELSE IF io = "ok"
            THEN LET r == AsVecU8(HGet(store, name[a], key))
                 IN  /\ UNCHANGED <<conn, released>>
                     /\ IF r.ok
                        THEN Returned([Call("get", a, "ok", "Ok")
                                         EXCEPT !.key = key, !.val = r.v])
                        ELSE Returned([Call("get", a, "ok", "Err") EXCEPT !.key = key])
            ELSE /\ conn' = [conn EXCEPT ![a] = "None"]
                 /\ released' = [released EXCEPT ![a] = @ + 1]
                 /\ Returned([Call("get", a, "fail", "Err") EXCEPT !.key = key])

\* fn get(&mut self, key)
get(a, key, io) ==
    /\ ncalls < MaxCalls
    /\ UNCHANGED <<name, ident, conn, acquired, released, store>>
    /\ IF conn[a] = "None"
       THEN Returned([Call("get", a, "none", "Err") EXCEPT !.key = key])
       ELSE IF io = "ok"
            THEN LET r == AsVecU8(HGet(store, name[a], key))
                 IN  IF r.ok
                     THEN Returned([Call("get", a, "ok", "Ok") EXCEPT !.key = key, !.val = r.v])
                     ELSE Returned([Call("get", a, "ok", "Err") EXCEPT !.key = key])
            ELSE Returned([Call("get", a, "fail", "Err") EXCEPT !.key = key])

\* fn remove(&mut self, key)
remove(a, key, io) ==
    /\ ncalls < MaxCalls
    /\ UNCHANGED <<name, ident, conn, acquired, released>>
    /\ IF conn[a] = "None"
       THEN /\ UNCHANGED store
            /\ Returned([Call("remove", a, "none", "Err") EXCEPT !.key = key])
       ELSE LET done == HDel(store, name[a], key)
                res == AsUsize(HDelReply(store, name[a], key))
            IN  IF io = "ok"
                THEN /\ store' = done
                     /\ IF res.ok
                        THEN Returned([Call("remove", a, "ok", "Ok")
                                         EXCEPT !.key = key, !.n = res.v])
                        ELSE Returned([Call("remove", a, "ok", "Err") EXCEPT !.key = key])
                ELSE /\ store' \in AfterFailed(store, done)
                     /\ Returned([Call("remove", a, "fail", "Err") EXCEPT !.key = key])

\* fn keys(&mut self)
keys(a, io) ==
    /\ ncalls < MaxCalls
    /\ UNCHANGED <<name, ident, conn, acquired, released, store>>
    /\ IF conn[a] = "None"
       THEN Returned(Call("keys", a, "none", "Err"))
       ELSE IF io = "ok"
            THEN \E reply \in HKeys(store, name[a]) :
                    LET r == AsVecString(reply)
                    IN  IF r.ok
                        THEN Returned([Call("keys", a, "ok", "Ok") EXCEPT !.ks = r.v])
                        ELSE Returned(Call("keys", a, "ok", "Err"))
            ELSE Returned(Call("keys", a, "fail", "Err"))

\* fn clear(&mut self)
clear(a, io) ==
    /\ ncalls < MaxCalls
    /\ UNCHANGED <<name, ident, conn, acquired, released>>
    /\ IF conn[a] = "None"
       THEN \* self.conn.as_mut().unwrap() panics on None
            /\ UNCHANGED store
            /\ Returned(Call("clear", a, "none", "Panic"))
       ELSE LET done == Del(store, name[a])
                res == AsUsize(DelReply(store, name[a]))
            IN  IF io = "ok"
                THEN /\ store' = done
                     /\ IF res.ok
                        THEN Returned([Call("clear", a, "ok", "Ok") EXCEPT !.n = res.v])
                        ELSE Returned(Call("clear", a, "ok", "Err"))
                ELSE /\ store' \in AfterFailed(store, done)
                     /\ Returned(Call("clear", a, "fail", "Err"))

\* fn contains_key(&mut self, key) -> bool
contains_key(a, key, io) ==
    /\ ncalls < MaxCalls
    /\ UNCHANGED <<name, ident, conn, acquired, released, store>>
    /\ IF conn[a] = "None"
       THEN Returned([Call("contains_key", a, "none", "Ok") EXCEPT !.key = key, !.b = FALSE])
       ELSE IF io = "ok"
            THEN LET r == AsUsize(HExists(store, name[a], key))
                 IN  Returned([Call("contains_key", a, "ok", "Ok")
                                 EXCEPT !.key = key, !.b = IF r.ok THEN r.v # 0 ELSE FALSE])
            ELSE Returned([Call("contains_key", a, "fail", "Ok")
                             EXCEPT !.key = key, !.b = FALSE])

IO == {"ok", "fail"}

\* one callback on adapter a
Step(a) ==
    \/ \E c \in ClientIds, u \in ServerUris, ok \in BOOLEAN : open(a, c, u, ok)
    \/ close(a)
    \/ \E k \in Keys, bs \in BufferLists, io \in IO : put(a, k, bs, io)
    \/ \E k \in Keys, io \in IO : get(a, k, io)
    \/ \E k \in Keys, io \in IO : remove(a, k, io)
    \/ \E io \in IO : keys(a, io)
    \/ \E io \in IO : clear(a, io)
    \/ \E k \in Keys, io \in IO : contains_key(a, k, io)

\* two adapter instances on one store
Next == \E a \in Adapters : Step(a)

Spec == Init /\ [][Next]_vars

----------------------------------------------------------------------------
(* Properties *)

RecordOps == {"put", "get", "remove", "keys", "clear", "contains_key"}

\* the partition (hash) adapter a is scoped to in store s
Partition(s, a) == s[name[a]]

\* the partition adapter a is scoped to after the step
PartitionAfter(a) == store'[name'[a]]

\* the number of bytes in the first i buffers
RECURSIVE BytesIn(_, _)
BytesIn(bufs, i) == IF i = 0 THEN 0 ELSE BytesIn(bufs, i - 1) + Len(bufs[i])

\* v is the bytes of bufs[1], then those of bufs[2], ..., byte for byte
IsConcatenation(v, bufs) ==
    /\ Len(v) = BytesIn(bufs, Len(bufs))
    /\ \A i \in 1..Len(bufs) : \A j \in 1..Len(bufs[i]) :
          v[BytesIn(bufs, i - 1) + j] = bufs[i][j]

\* C1: a record operation called with no live connection returns a persistence
\* error (put, get, remove, keys, clear), contains_key returns false, and none
\* of them panics.  (Record operations leave conn as it was when they were called.)
C1_NoConnectionIsAnError ==
    (last.op \in RecordOps /\ conn[last.a] = "None") =>
        IF last.op = "contains_key"
        THEN last.res = "Ok" /\ last.b = FALSE
        ELSE last.res = "Err"

\* C2: a put that succeeded, followed by a get of the same key on the same
\* adapter whose store command does not fail, returns exactly the concatenation
\* of the buffers that were put, in order.
C2_PutThenGet ==
    [][ ( /\ last.op = "put" /\ last.res = "Ok"
          /\ last'.op = "get" /\ last'.a = last.a /\ last'.key = last.key
          /\ last'.io = "ok" )
        => ( last'.res = "Ok" /\ IsConcatenation(last'.val, last.bufs) ) ]_vars

\* a get returned the three bytes of the put of <<1>>, <<>>, <<2, 1>>
C2_Witness ==
    /\ last.op = "get" /\ last.res = "Ok" /\ last.io = "ok"
    /\ last.val = <<1, 2, 1>>

\* C3: when the store command of put, get, remove or keys fails, the call
\* returns a persistence error (it does not panic).
C3_StoreFailureIsAnError ==
    (last.op \in {"put", "get", "remove", "keys"} /\ last.io = "fail") =>
        last.res = "Err"

\* C4: after an open that returned failure the adapter holds no connection.
C4_FailedOpenLeavesClosed ==
    (last.op = "open" /\ last.res = "Err") => conn[last.a] = "None"

\* C5: two open adapters whose opens were given different client ids are
\* scoped to different partitions.
C5_PartitionsDistinct ==
    \A a, b \in Adapters :
        ( /\ a # b
          /\ conn[a] = "Some" /\ conn[b] = "Some"
          /\ ident[a][1] # ident[b][1] )
        => name[a] # name[b]

\* C6: get on an open adapter returns a persistence error when the key is not
\* a field of the partition.  (get leaves the store as it was.)
C6_GetAbsentIsAnError ==
    ( /\ last.op = "get" /\ conn[last.a] = "Some"
      /\ last.key \notin DOMAIN Partition(store, last.a) )
    => last.res = "Err"

\* C7: contains_key never signals an error; it is false with no connection and
\* when the store command fails, and otherwise true exactly when the key is a
\* field of the adapter's partition.
C7_Contains ==
    last.op = "contains_key" =>
        /\ last.res = "Ok"
        /\ last.b \in BOOLEAN
        /\ conn[last.a] = "None" => last.b = FALSE
        /\ last.io = "fail" => last.b = FALSE
        /\ (conn[last.a] = "Some" /\ last.io = "ok") =>
              (last.b <=> last.key \in DOMAIN Partition(store, last.a))

\* contains_key answered true for one key of a partition that lacks the other
C7_Witness ==
    /\ last.op = "contains_key" /\ last.b = TRUE
    /\ DOMAIN Partition(store, last.a) = {last.key}

\* C8: with a connection open and the store command not failing, remove returns
\* success and the key is no field of the partition afterwards, whether or not it
\* was one before; remove fails only with no connection or a failed command; and
\* a contains_key of that key right after a successful remove is false.
C8_Remove ==
    [][ /\ last'.op = "remove" =>
            /\ (conn'[last'.a] = "Some" /\ last'.io = "ok") =>
                  /\ last'.res = "Ok"
                  /\ last'.key \notin DOMAIN PartitionAfter(last'.a)
                  /\ last'.n = IF last'.key \in DOMAIN Partition(store, last'.a)
                               THEN 1 ELSE 0
            /\ last'.res # "Ok" =>
                  /\ last'.res = "Err"
                  /\ conn'[last'.a] = "None" \/ last'.io = "fail"
        /\ ( /\ last.op = "remove" /\ last.res = "Ok"
             /\ last'.op = "contains_key" /\ last'.a = last.a /\ last'.key = last.key )
           => last'.b = FALSE ]_vars

\* a remove took a present key out of a partition that keeps its other key
C8_Witness ==
    /\ last.op = "remove" /\ last.res = "Ok" /\ last.n = 1
    /\ Partition(store, last.a) # <<>>

\* C9 as stated: with a connection open clear returns success, and a keys right
\* after it returns success with an empty sequence.
C9_ClearAlwaysSucceeds ==
    [][ /\ (last'.op = "clear" /\ conn'[last'.a] = "Some") => last'.res = "Ok"
        /\ ( /\ last.op = "clear" /\ conn[last.a] = "Some"
             /\ last'.op = "keys" /\ last'.a = last.a )
           => (last'.res = "Ok" /\ last'.ks = <<>>) ]_vars

\* C9 amended: with a connection open and no store command failing, clear
\* returns success whether the partition is empty or populated and leaves it
\* empty, and a keys right after it returns success with an empty sequence.
C9_Clear ==
    [][ /\ (last'.op = "clear" /\ conn'[last'.a] = "Some" /\ last'.io = "ok") =>
            /\ last'.res = "Ok"
            /\ last'.n = IF Partition(store, last'.a) = <<>> THEN 0 ELSE 1
        /\ ( /\ last.op = "clear" /\ last.res = "Ok"
             /\ last'.op = "keys" /\ last'.a = last.a /\ last'.io = "ok" )
           => (last'.res = "Ok" /\ last'.ks = <<>>) ]_vars

\* a clear of a populated partition returned success
C9_Witness ==
    /\ last.op = "clear" /\ last.res = "Ok" /\ last.n = 1

\* C10 as stated: a put of a key that already has a value (the store replies 0
\* fields added), followed by a get of that key, returns the value just put.
C10_OverwriteThenGet ==
    [][ ( /\ last.op = "put" /\ last.res = "Ok" /\ last.n = 0
          /\ last'.op = "get" /\ last'.a = last.a /\ last'.key = last.key )
        => ( last'.res = "Ok" /\ IsConcatenation(last'.val, last.bufs) ) ]_vars

\* C10 amended: with no store command failing, a put of a key that already has
\* a value replaces that value by the concatenation of its buffers, keeping and
\* appending nothing, and a get of that key right after it returns the new value.
C10_Overwrite ==
    [][ /\ ( /\ last'.op = "put" /\ last'.res = "Ok"
             /\ last'.key \in DOMAIN Partition(store, last'.a) )
           => /\ last'.n = 0
              /\ IsConcatenation(PartitionAfter(last'.a)[last'.key], last'.bufs)
        /\ ( /\ last.op = "put" /\ last.res = "Ok" /\ last.n = 0
             /\ last'.op = "get" /\ last'.a = last.a /\ last'.key = last.key
             /\ last'.io = "ok" )
           => ( last'.res = "Ok" /\ IsConcatenation(last'.val, last.bufs) ) ]_vars

\* a put replaced the value of a key that was already a field
C10_Witness ==
    /\ last.op = "put" /\ last.res = "Ok" /\ last.n = 0
    /\ Len(Partition(store, last.a)[last.key]) = 3

\* C11: close returns success in every state, with or without a connection and
\* when it directly follows another close, and the adapter holds no connection
\* after it.
C11_Close ==
    [][ last'.op = "close" =>
          /\ last'.res = "Ok"
          /\ conn'[last'.a] = "None"
          /\ \A b \in Adapters \ {last'.a} : conn'[b] = conn[b] ]_vars

\* a close was the first call on a new adapter: there was no connection to drop
C11_Witness ==
    /\ last.op = "close" /\ last.res = "Ok"
    /\ ncalls = 1 /\ conn[last.a] = "None"

\* C12: every connection an adapter acquired and no longer holds was released
\* exactly once, and it holds at most one: the connections acquired and not yet
\* released are the one in self.conn, if any.
C12_NoLeak ==
    \A a \in Adapters :
        /\ released[a] <= acquired[a]
        /\ acquired[a] - released[a] = IF conn[a] = "Some" THEN 1 ELSE 0

\* an adapter was opened twice with no close in between: the first connection
\* was released, the second is held
C12_Witness ==
    \E a \in Adapters :
        /\ ncalls = 2 /\ acquired[a] = 2 /\ released[a] = 1
        /\ conn[a] = "Some"

\* C13: while an adapter holds a connection its partition identifier does not
\* change, except by a close or by another successful open of that adapter.
C13_NameStable ==
    [][ \A a \in Adapters :
          ( /\ conn[a] = "Some"
            /\ ~ (last'.op = "open" /\ last'.a = a /\ last'.res = "Ok")
            /\ ~ (last'.op = "close" /\ last'.a = a) )
          => name'[a] = name[a] ]_vars

\* C14: an adapter that was open, was closed, and is opened again with other
\* identifiers is scoped to another partition than before.
C14_ReopenRescopes ==
    [][ \A a \in Adapters :
          ( /\ last.op = "close" /\ last.a = a /\ acquired[a] >= 1
            /\ last'.op = "open" /\ last'.a = a /\ last'.res = "Ok"
            /\ ident'[a] # ident[a] )
          => name'[a] # name[a] ]_vars

\* the elements of a sequence
SetOf(q) == { q[i] : i \in 1..Len(q) }

\* C15: with a connection open and HKEYS not failing, keys returns success with
\* each field of the adapter's partition exactly once (none for an empty
\* partition); the fields are those put and not removed or cleared since; and a
\* contains_key right after it, not failing, is true exactly for the keys listed.
C15_Keys ==
    [][ /\ (last'.op = "keys" /\ conn'[last'.a] = "Some" /\ last'.io = "ok") =>
              /\ last'.res = "Ok"
              /\ SetOf(last'.ks) = DOMAIN Partition(store, last'.a)
              /\ Len(last'.ks) = Cardinality(DOMAIN Partition(store, last'.a))
        /\ (last'.op = "put" /\ last'.res = "Ok") =>
              DOMAIN PartitionAfter(last'.a)
                 = (DOMAIN Partition(store, last'.a)) \cup {last'.key}
        /\ (last'.op = "remove" /\ last'.res = "Ok") =>
              DOMAIN PartitionAfter(last'.a)
                 = (DOMAIN Partition(store, last'.a)) \ {last'.key}
        /\ (last'.op = "clear" /\ last'.res = "Ok") =>
              DOMAIN PartitionAfter(last'.a) = {}
        /\ ( /\ last.op = "keys" /\ last.res = "Ok"
             /\ last'.op = "contains_key" /\ last'.a = last.a /\ last'.io = "ok" )
           => (last'.b <=> last'.key \in SetOf(last.ks)) ]_vars

\* keys listed both keys of a partition
C15_Witness ==
    /\ last.op = "keys" /\ last.res = "Ok"
    /\ Len(last.ks) = 2 /\ SetOf(last.ks) = Keys

SameField(s, t, n, k) ==
    /\ k \in DOMAIN s[n] <=> k \in DOMAIN t[n]
    /\ k \in DOMAIN s[n] => s[n][k] = t[n][k]

\* C17: put and remove, succeeding or failing, leave every other field of the
\* partition and every other partition as they were; clear leaves every other
\* partition as it was; get, keys and contains_key leave the whole store as it was.
C17_Frame ==
    [][ /\ last'.op \in {"put", "remove"} =>
              \A n \in Names : \A k \in Keys :
                  (n # name[last'.a] \/ k # last'.key) => SameField(store, store', n, k)
        /\ last'.op = "clear" =>
              \A n \in Names : n # name[last'.a] => store'[n] = store[n]
        /\ last'.op \in {"get", "keys", "contains_key"} => store' = store ]_vars

\* a put succeeded on a partition that holds the other key too
C17_Witness ==
    /\ last.op = "put" /\ last.res = "Ok"
    /\ DOMAIN Partition(store, last.a) = Keys

C19_RecordOpsKeepAdapter ==
    [][ last'.op \in RecordOps => (conn' = conn /\ name' = name) ]_vars

\* a record operation's command failed and the adapter still holds its connection
C19_Witness ==
    /\ last.op \in RecordOps /\ last.io = "fail"
    /\ conn[last.a] = "Some" /\ name[last.a] # <<>>

====
